---- MODULE Spec2Model ----
(***************************************************************************)
(* Edge greenhouse controller (edge_control_system.py) and its batch log   *)
(* exporter (cloud_sync_logic.py).                                         *)
(*                                                                         *)
(* Text is modelled by TLA+ strings: Len, SubSeq and \o act on them as on  *)
(* sequences of characters.  Readings are integers in the unit of their    *)
(* display: moisture in hundredths of a percent (the code does not round   *)
(* it before comparing), temperature and humidity in tenths (the code      *)
(* rounds them to one decimal), light in lux (rounded to zero decimals).   *)
(***************************************************************************)
EXTENDS Integers, Sequences, FiniteSets, TLC

VARIABLES
    pc,                 \* position of main_control_loop
    clock,              \* seconds since the program started (datetime.now)
    pump, fan, mister, led_light, shade_net,    \* OutputDevice.is_active
    current_moisture, current_temp, current_humidity, current_light,
    log_exists, log,    \* ActuatorLog_Local.txt: the lines of the file
    sink_ok,            \* whether open(...,"a")/write succeeds
    calls,              \* arguments of the log_action calls made so far
    sync_pc,            \* position of read_local_buffer_and_sync
    processed_data,     \* list of parsed records
    csv_exists, csv     \* CloudSync_Ready.csv: the rows of the file

actuators == <<pump, fan, mister, led_light, shade_net>>
readings == <<current_moisture, current_temp, current_humidity, current_light>>
logfile == <<log_exists, log>>
syncvars == <<sync_pc, processed_data, csv_exists, csv>>
vars == <<pc, clock, actuators, readings, logfile, sink_ok, calls, syncvars>>

(***************************************************************************)
(* Bounds of the model                                                     *)
(***************************************************************************)
MaxCycles == 3          \* control cycles explored in one run
MaxFileLines == 3       \* lines of a log file handed to the batch export

(***************************************************************************)
(* Configuration (edge_control_system.py, section 1)                       *)
(***************************************************************************)
TARGET_MOISTURE_LOW == 4000     \* 40.0 %, in hundredths
TARGET_MOISTURE_HIGH == 6500    \* 65.0 %, in hundredths
TARGET_TEMP_HIGH == 320         \* 32.0 C, in tenths
TARGET_TEMP_OPTIMAL == 280      \* 28.0 C, in tenths
TARGET_HUMIDITY_HIGH == 800     \* 80.0 %, in tenths
TARGET_HUMIDITY_LOW == 600      \* 60.0 %, in tenths
TARGET_LIGHT_HIGH == 30000      \* lux
TARGET_LIGHT_LOW == 15000       \* lux
LOOP_DELAY == 5                 \* seconds

(***************************************************************************)
(* Python string primitives                                                *)
(***************************************************************************)
Min(a, b) == IF a < b THEN a ELSE b

\* s[i] for a 0-based index i inside the string
CharAt(s, i) == SubSeq(s, i + 1, i + 1)

\* s[a:b] with 0 <= a, 0 <= b: out-of-range bounds are clamped, never raise
Slice(s, a, b) == SubSeq(s, Min(a, Len(s)) + 1, Min(b, Len(s)))

\* s[a:]
SliceFrom(s, a) == SubSeq(s, Min(a, Len(s)) + 1, Len(s))

\* s.startswith(t, i) for a 0-based offset i
StartsWithAt(s, t, i) == /\ i + Len(t) <= Len(s)
                         /\ SubSeq(s, i + 1, i + Len(t)) = t

\* s.find(t, i): 0-based offset of the first occurrence of t at or after i,
\* -1 when there is none
RECURSIVE Find(_, _, _)
Find(s, t, i) ==
    IF i + Len(t) > Len(s) THEN -1
    ELSE IF StartsWithAt(s, t, i) THEN i
    ELSE Find(s, t, i + 1)

\* t in s
Contains(s, t) == Find(s, t, 0) # -1

\* s.split(sep): every occurrence of sep separates two parts
RECURSIVE Split(_, _)
Split(s, sep) ==
    LET k == Find(s, sep, 0) IN
    IF k = -1 THEN <<s>>
    ELSE <<Slice(s, 0, k)>> \o Split(SliceFrom(s, k + Len(sep)), sep)

IsSpace(c) == c \in {" ", "\t", "\n", "\r", "\f"}

RECURSIVE LStrip(_)
LStrip(s) == IF Len(s) > 0 /\ IsSpace(CharAt(s, 0)) THEN LStrip(SliceFrom(s, 1))
             ELSE s

RECURSIVE RStrip(_)
RStrip(s) == IF Len(s) > 0 /\ IsSpace(CharAt(s, Len(s) - 1))
             THEN RStrip(Slice(s, 0, Len(s) - 1))
             ELSE s

\* s.strip()
Strip(s) == RStrip(LStrip(s))

(***************************************************************************)
(* Number and time formatting                                              *)
(***************************************************************************)
\* f"{n:02d}"
Pad2(n) == IF n < 10 THEN "0" \o ToString(n) ELSE ToString(n)

\* f"{x:.1f}" of a value given in tenths
FmtTenths(t) == ToString(t \div 10) \o "." \o ToString(t % 10)

\* f"{x:.1f}" of a value given in hundredths: rounds to the nearest tenth
\* (the sampled values never sit on a tie)
FmtHundredths(h) == FmtTenths((h + 5) \div 10)

\* f"{x:.0f}" of a value that round(x, 0) already made integral
FmtLux(x) == ToString(x)

\* datetime.now().strftime("%Y-%m-%d %H:%M:%S"), the program having started
\* at 2025-01-01 00:00:00
Timestamp(t) ==
    "2025-01-01 " \o Pad2((t \div 3600) % 24) \o ":" \o Pad2((t \div 60) % 60)
                  \o ":" \o Pad2(t % 60)

OnOff(b) == IF b THEN "ON" ELSE "OFF"

(***************************************************************************)
(* Action Logger (edge_control_system.py, section 3)                       *)
(***************************************************************************)
\* LogEntry with a separator the parser does not look for
LogEntry_Dash(timestamp, sensor_data, action) ==
    "[" \o timestamp \o "] " \o sensor_data \o " - Action: " \o action

\* log_entry = f"[{timestamp}] {sensor_data}. Action: {action}"
LogEntry(timestamp, sensor_data, action) ==
    "[" \o timestamp \o "] " \o sensor_data \o ". Action: " \o action

\* the f-string every caller passes as sensor_data
SensorData(label, display) == label \o ": " \o display

\* one log_action call, as the controller records it
Call(label, display, action) ==
    [timestamp |-> Timestamp(clock), label |-> label, display |-> display,
     action |-> action]

\* the line f.write(log_entry + "\n") appends for a call
LineOf(c) == LogEntry(c.timestamp, SensorData(c.label, c.display), c.action) \o "\n"

\* the file after log_action ran for each call of cs in turn: a write that
\* raises is caught and reported, the line is lost
AppendLines(file, cs, ok) ==
    IF ok THEN file \o [i \in 1..Len(cs) |-> LineOf(cs[i])] ELSE file

(***************************************************************************)
(* Log Record Parser (cloud_sync_logic.py)                                 *)
(***************************************************************************)
\* CRITICAL_ACTIONS with the LED label spelled unlike the controller's
CRITICAL_ACTIONS_LedTypo ==
    {"Pump ON", "Fan ON", "Mister ON", "Shade Net ON", "LED ON"}

CRITICAL_ACTIONS == {"Pump ON", "Fan ON", "Mister ON", "Shade Net ON", "LEDs ON"}

\* insertion order of the dict literal parse_log_entry returns
FieldNames == <<"Timestamp", "Sensor_Type", "Sensor_Reading", "Actuator_Action",
                "Is_Critical", "Cloud_Sync_ID">>

\* any(crit_action in action_name for crit_action in CRITICAL_ACTIONS)
IsCritical(action_name) == \E crit \in CRITICAL_ACTIONS : Contains(action_name, crit)

\* parse_log_entry(line) with random.randint(1000, 9999) = id.  The result
\* is <<record>>, or << >> for None; an index past the end of a list raises
\* IndexError, which the except clause turns into None.
parse_log_entry(line, id) ==
    LET timestamp == Slice(line, 1, 20)
        data_parts == Split(SliceFrom(line, 23), ". Action: ")
        sensor_data_raw == Split(data_parts[1], ": ")
    IN  IF Len(sensor_data_raw) < 2 THEN << >>
        ELSE IF Len(data_parts) < 2 THEN << >>
        ELSE LET sensor_type == sensor_data_raw[1]
                 sensor_value_unit == Strip(sensor_data_raw[2])
                 action_raw == Strip(data_parts[2])
                 action_name == Strip(Split(action_raw, "(")[1])
             IN  << [Timestamp |-> timestamp,
                     Sensor_Type |-> sensor_type,
                     Sensor_Reading |-> sensor_value_unit,
                     Actuator_Action |-> action_name,
                     Is_Critical |-> IF IsCritical(action_name) THEN "Yes" ELSE "No",
                     Cloud_Sync_ID |-> "CS-" \o ToString(id)] >>

\* ParseLines that gives up at the first line without a record
RECURSIVE ParseLines_StopAtBad(_, _, _)
ParseLines_StopAtBad(file, ids, i) ==
    IF i > Len(file) THEN << >>
    ELSE IF parse_log_entry(Strip(file[i]), ids[i]) = << >> THEN << >>
    ELSE parse_log_entry(Strip(file[i]), ids[i])
            \o ParseLines_StopAtBad(file, ids, i + 1)

\* the loop "for line in f": processed_data after the lines of file, ids[i]
\* being the random number drawn for line i
RECURSIVE ParseLines(_, _, _)
ParseLines(file, ids, i) ==
    IF i > Len(file) THEN << >>
    ELSE parse_log_entry(Strip(file[i]), ids[i]) \o ParseLines(file, ids, i + 1)

\* the row csv.DictWriter writes for a record
Row(rec) == <<rec.Timestamp, rec.Sensor_Type, rec.Sensor_Reading,
              rec.Actuator_Action, rec.Is_Critical, rec.Cloud_Sync_ID>>

\* CsvOf that writes the newest record first
CsvOf_Reversed(data) ==
    <<FieldNames>> \o [i \in 1..Len(data) |-> Row(data[Len(data) + 1 - i])]

\* writer.writeheader(); writer.writerows(processed_data)
CsvOf(data) == <<FieldNames>> \o [i \in 1..Len(data) |-> Row(data[i])]

(***************************************************************************)
(* Hysteresis rules (main_control_loop, sections A to D)                   *)
(***************************************************************************)
\* MoistureRule with the two thresholds exchanged, which leaves no dead band
MoistureRule_ThresholdsSwapped(m, p) ==
    IF m < TARGET_MOISTURE_HIGH /\ p = FALSE
    THEN [pump |-> TRUE, action |-> "Pump ON (Irrigation START)"]
    ELSE IF m > TARGET_MOISTURE_LOW /\ p = TRUE
    THEN [pump |-> FALSE, action |-> "Pump OFF (Irrigation STOP)"]
    ELSE [pump |-> p, action |-> "Soil_Moisture: No Change (" \o OnOff(p) \o ")"]

\* MoistureRule with the lower threshold included in the ON condition
MoistureRule_Inclusive(m, p) ==
    IF m <= TARGET_MOISTURE_LOW /\ p = FALSE
    THEN [pump |-> TRUE, action |-> "Pump ON (Irrigation START)"]
    ELSE IF m > TARGET_MOISTURE_HIGH /\ p = TRUE
    THEN [pump |-> FALSE, action |-> "Pump OFF (Irrigation STOP)"]
    ELSE [pump |-> p, action |-> "Soil_Moisture: No Change (" \o OnOff(p) \o ")"]

\* A. soil moisture: the pump
MoistureRule(m, p) ==
    IF m < TARGET_MOISTURE_LOW /\ p = FALSE
    THEN [pump |-> TRUE, action |-> "Pump ON (Irrigation START)"]
    ELSE IF m > TARGET_MOISTURE_HIGH /\ p = TRUE
    THEN [pump |-> FALSE, action |-> "Pump OFF (Irrigation STOP)"]
    ELSE [pump |-> p, action |-> "Soil_Moisture: No Change (" \o OnOff(p) \o ")"]

\* TemperatureRule that stops only a fan it has started itself: one that
\* the humidity rule started for dehumidifying is left running
TemperatureRule_OwnFanOnly(t, f) ==
    IF t > TARGET_TEMP_HIGH /\ f = FALSE
    THEN [fan |-> TRUE, action |-> "Fan ON (Cooling START)"]
    ELSE IF t < TARGET_TEMP_OPTIMAL /\ f = TRUE
            /\ \A i \in 1..Len(calls) :
                   calls[i].action = "Fan ON (Dehumidify START)" =>
                       \E j \in (i + 1)..Len(calls) :
                           calls[j].action \in {"Fan OFF (Cooling STOP)",
                                                "Fan ON (Cooling START)"}
    THEN [fan |-> FALSE, action |-> "Fan OFF (Cooling STOP)"]
    ELSE [fan |-> f, action |-> "Temperature: No Change (" \o OnOff(f) \o ")"]

\* TemperatureRule with the upper threshold included in the ON condition
TemperatureRule_Inclusive(t, f) ==
    IF t >= TARGET_TEMP_HIGH /\ f = FALSE
    THEN [fan |-> TRUE, action |-> "Fan ON (Cooling START)"]
    ELSE IF t < TARGET_TEMP_OPTIMAL /\ f = TRUE
    THEN [fan |-> FALSE, action |-> "Fan OFF (Cooling STOP)"]
    ELSE [fan |-> f, action |-> "Temperature: No Change (" \o OnOff(f) \o ")"]

\* B. temperature: the fan
TemperatureRule(t, f) ==
    IF t > TARGET_TEMP_HIGH /\ f = FALSE
    THEN [fan |-> TRUE, action |-> "Fan ON (Cooling START)"]
    ELSE IF t < TARGET_TEMP_OPTIMAL /\ f = TRUE
    THEN [fan |-> FALSE, action |-> "Fan OFF (Cooling STOP)"]
    ELSE [fan |-> f, action |-> "Temperature: No Change (" \o OnOff(f) \o ")"]

\* HumidityRule with a branch that ends dehumidifying: it stops the fan once
\* the humidity is no longer above the upper threshold
HumidityRule_StopsFan(h, m, f) ==
    IF h < TARGET_HUMIDITY_LOW /\ m = FALSE
    THEN [mister |-> TRUE, fan |-> f, action |-> "Mister ON (Humidify START)"]
    ELSE IF h > TARGET_HUMIDITY_HIGH /\ m = TRUE
    THEN [mister |-> FALSE, fan |-> f, action |-> "Mister OFF (Humidify STOP)"]
    ELSE IF h > TARGET_HUMIDITY_HIGH /\ f = FALSE
    THEN [mister |-> m, fan |-> TRUE, action |-> "Fan ON (Dehumidify START)"]
    ELSE IF h <= TARGET_HUMIDITY_HIGH /\ f = TRUE
    THEN [mister |-> m, fan |-> FALSE, action |-> "Fan OFF (Dehumidify STOP)"]
    ELSE [mister |-> m, fan |-> f,
          action |-> "Humidity: No Change (" \o OnOff(m) \o ")"]

\* HumidityRule whose mister-off branch starts the dehumidifying fan as well
HumidityRule_MisterOffFanOn(h, m, f) ==
    IF h < TARGET_HUMIDITY_LOW /\ m = FALSE
    THEN [mister |-> TRUE, fan |-> f, action |-> "Mister ON (Humidify START)"]
    ELSE IF h > TARGET_HUMIDITY_HIGH /\ m = TRUE
    THEN [mister |-> FALSE, fan |-> TRUE, action |-> "Mister OFF (Humidify STOP)"]
    ELSE IF h > TARGET_HUMIDITY_HIGH /\ f = FALSE
    THEN [mister |-> m, fan |-> TRUE, action |-> "Fan ON (Dehumidify START)"]
    ELSE [mister |-> m, fan |-> f,
          action |-> "Humidity: No Change (" \o OnOff(m) \o ")"]

\* C. humidity: the mister, and the fan of the temperature rule
HumidityRule(h, m, f) ==
    IF h < TARGET_HUMIDITY_LOW /\ m = FALSE
    THEN [mister |-> TRUE, fan |-> f, action |-> "Mister ON (Humidify START)"]
    ELSE IF h > TARGET_HUMIDITY_HIGH /\ m = TRUE
    THEN [mister |-> FALSE, fan |-> f, action |-> "Mister OFF (Humidify STOP)"]
    ELSE IF h > TARGET_HUMIDITY_HIGH /\ f = FALSE
    THEN [mister |-> m, fan |-> TRUE, action |-> "Fan ON (Dehumidify START)"]
    ELSE [mister |-> m, fan |-> f,
          action |-> "Humidity: No Change (" \o OnOff(m) \o ")"]

\* LightRule that retracts the shade net below TARGET_LIGHT_LOW - 1000
LightRule_RetractBelowLow(l, led, shade) ==
    IF l < TARGET_LIGHT_LOW /\ led = FALSE
    THEN [led_light |-> TRUE, shade_net |-> shade, label |-> "Light_Intensity",
          action |-> "LEDs ON (Low Light Supplement)"]
    ELSE IF l > TARGET_LIGHT_LOW + 500 /\ led = TRUE
    THEN [led_light |-> FALSE, shade_net |-> shade, label |-> "Light_Intensity",
          action |-> "LEDs OFF (Light Optimal)"]
    ELSE IF l > TARGET_LIGHT_HIGH /\ shade = FALSE
    THEN [led_light |-> led, shade_net |-> TRUE, label |-> "Light_Intensity",
          action |-> "Shade Net ON (High Light Protection)"]
    ELSE IF l < TARGET_LIGHT_LOW - 1000 /\ shade = TRUE
    THEN [led_light |-> led, shade_net |-> FALSE, label |-> "Light",
          action |-> "Shade Net OFF (Light Reduced)"]
    ELSE [led_light |-> led, shade_net |-> shade, label |-> "Light_Intensity",
          action |-> "Light: No Change (LED:" \o OnOff(led) \o ", Shade:"
                     \o OnOff(shade) \o ")"]

\* LightRule whose first branch is not guarded by the state of the LED
LightRule_Unguarded(l, led, shade) ==
    IF l < TARGET_LIGHT_LOW
    THEN [led_light |-> TRUE, shade_net |-> shade, label |-> "Light_Intensity",
          action |-> "LEDs ON (Low Light Supplement)"]
    ELSE IF l > TARGET_LIGHT_LOW + 500 /\ led = TRUE
    THEN [led_light |-> FALSE, shade_net |-> shade, label |-> "Light_Intensity",
          action |-> "LEDs OFF (Light Optimal)"]
    ELSE IF l > TARGET_LIGHT_HIGH /\ shade = FALSE
    THEN [led_light |-> led, shade_net |-> TRUE, label |-> "Light_Intensity",
          action |-> "Shade Net ON (High Light Protection)"]
    ELSE IF l < TARGET_LIGHT_HIGH - 1000 /\ shade = TRUE
    THEN [led_light |-> led, shade_net |-> FALSE, label |-> "Light",
          action |-> "Shade Net OFF (Light Reduced)"]
    ELSE [led_light |-> led, shade_net |-> shade, label |-> "Light_Intensity",
          action |-> "Light: No Change (LED:" \o OnOff(led) \o ", Shade:"
                     \o OnOff(shade) \o ")"]

\* D. light: the LEDs and the shade net
LightRule(l, led, shade) ==
    IF l < TARGET_LIGHT_LOW /\ led = FALSE
    THEN [led_light |-> TRUE, shade_net |-> shade, label |-> "Light_Intensity",
          action |-> "LEDs ON (Low Light Supplement)"]
    ELSE IF l > TARGET_LIGHT_LOW + 500 /\ led = TRUE
    THEN [led_light |-> FALSE, shade_net |-> shade, label |-> "Light_Intensity",
          action |-> "LEDs OFF (Light Optimal)"]
    ELSE IF l > TARGET_LIGHT_HIGH /\ shade = FALSE
    THEN [led_light |-> led, shade_net |-> TRUE, label |-> "Light_Intensity",
          action |-> "Shade Net ON (High Light Protection)"]
    ELSE IF l < TARGET_LIGHT_HIGH - 1000 /\ shade = TRUE
    THEN [led_light |-> led, shade_net |-> FALSE, label |-> "Light",
          action |-> "Shade Net OFF (Light Reduced)"]
    ELSE [led_light |-> led, shade_net |-> shade, label |-> "Light_Intensity",
          action |-> "Light: No Change (LED:" \o OnOff(led) \o ", Shade:"
                     \o OnOff(shade) \o ")"]

(***************************************************************************)
(* Reading source (edge_control_system.py, section 2).  The simulated      *)
(* sensors stand for real ones: a reading is any value of the sensor's     *)
(* range, sampled here on both sides of and exactly on every threshold.    *)
(* A frame is <<moisture, temperature, humidity, light>>.                  *)
(***************************************************************************)
Frames ==
    { <<3996, 321, 599, 14999>>,    \* below every LOW, above TEMP_HIGH
      <<6504, 279, 801, 30001>>,    \* above every HIGH, below TEMP_OPTIMAL
      <<4000, 280, 600, 15000>>,    \* exactly on the lower thresholds
      <<6500, 320, 800, 15500>>,    \* exactly on the upper thresholds
      <<3500, 290, 700, 20000>>,    \* dry soil, everything else in its dead band
      <<5000, 300, 801, 28999>>,    \* humid, just below the shade retraction point
      <<5000, 321, 801, 29000>>,    \* hot and humid, on the shade retraction point
      <<5000, 279, 599, 30000>>,    \* cool and dry air, on TARGET_LIGHT_HIGH
      <<5000, 300, 700, 15501>> }   \* just above the LED switch-off point

\* the readings of the four initialisation lines: the start values of the
\* simulation moved by one drift step
InitFrames == { <<7204, 279, 690, 19000>>, <<7396, 285, 705, 22500>> }

(***************************************************************************)
(* One category of one control cycle: the state after the rule and the     *)
(* arguments of its log_action call                                        *)
(***************************************************************************)
State == [pump |-> pump, fan |-> fan, mister |-> mister,
          led_light |-> led_light, shade_net |-> shade_net]

Frame == [moisture |-> current_moisture, temp |-> current_temp,
          humidity |-> current_humidity, light |-> current_light]

AllOff == [pump |-> FALSE, fan |-> FALSE, mister |-> FALSE,
           led_light |-> FALSE, shade_net |-> FALSE]

MoistureStep(st, fr) ==
    LET r == MoistureRule(fr.moisture, st.pump) IN
    [state |-> [st EXCEPT !.pump = r.pump],
     label |-> "Soil_Moisture", display |-> FmtHundredths(fr.moisture) \o "%",
     action |-> r.action]

TemperatureStep(st, fr) ==
    LET r == TemperatureRule(fr.temp, st.fan) IN
    [state |-> [st EXCEPT !.fan = r.fan],
     label |-> "Temperature", display |-> FmtTenths(fr.temp) \o "°C",
     action |-> r.action]

HumidityStep(st, fr) ==
    LET r == HumidityRule(fr.humidity, st.mister, st.fan) IN
    [state |-> [st EXCEPT !.mister = r.mister, !.fan = r.fan],
     label |-> "Humidity", display |-> FmtTenths(fr.humidity) \o "%",
     action |-> r.action]

LightStep(st, fr) ==
    LET r == LightRule(fr.light, st.led_light, st.shade_net) IN
    [state |-> [st EXCEPT !.led_light = r.led_light, !.shade_net = r.shade_net],
     label |-> r.label, display |-> FmtLux(fr.light) \o " Lux",
     action |-> r.action]

CategoryStep(cat, st, fr) ==
    CASE cat = "moisture" -> MoistureStep(st, fr)
      [] cat = "temperature" -> TemperatureStep(st, fr)
      [] cat = "humidity" -> HumidityStep(st, fr)
      [] cat = "light" -> LightStep(st, fr)

\* NextPc with the humidity chain placed before the temperature chain
NextPc_HumidityFirst(cat) ==
    CASE cat = "read" -> "moisture"
      [] cat = "moisture" -> "humidity"
      [] cat = "humidity" -> "temperature"
      [] cat = "temperature" -> "light"
      [] cat = "light" -> "sleep"
      [] cat = "sleep" -> "read"

\* the statement that follows a category in the body of the while loop
NextPc(cat) ==
    CASE cat = "read" -> "moisture"
      [] cat = "moisture" -> "temperature"
      [] cat = "temperature" -> "humidity"
      [] cat = "humidity" -> "light"
      [] cat = "light" -> "sleep"
      [] cat = "sleep" -> "read"

Categories == {"moisture", "temperature", "humidity", "light"}
LoopPcs == {"read", "sleep"} \cup Categories

(***************************************************************************)
(* main_control_loop                                                       *)
(***************************************************************************)
SetActuators(st) ==
    /\ pump' = st.pump
    /\ fan' = st.fan
    /\ mister' = st.mister
    /\ led_light' = st.led_light
    /\ shade_net' = st.shade_net

\* log_action for each call of cs in turn
Log(cs) ==
    /\ calls' = calls \o cs
    /\ log' = AppendLines(log, cs, sink_ok)
    /\ log_exists' = (log_exists \/ sink_ok)

\* lines 112-129: the devices are created and switched off, then the four
\* initialisation lines are logged, each with a first reading of its sensor
Initialise ==
    /\ pc = "start"
    /\ SetActuators(AllOff)
    /\ \E f \in InitFrames :
          Log(<< Call("Moisture", FmtHundredths(f[1]) \o "%", "System Initialized: Pump OFF"),
                 Call("Temp", FmtTenths(f[2]) \o "°C", "System Initialized: Fan OFF"),
                 Call("Humidity", FmtTenths(f[3]) \o "%", "System Initialized: Mister OFF"),
                 Call("Light", FmtLux(f[4]) \o " Lux", "System Initialized: Light OFF") >>)
    /\ pc' = "read"
    /\ UNCHANGED <<clock, readings, sink_ok, syncvars>>

\* lines 136-139
ReadSensors ==
    /\ pc = "read"
    /\ clock < MaxCycles * LOOP_DELAY
    /\ \E f \in Frames :
          /\ current_moisture' = f[1]
          /\ current_temp' = f[2]
          /\ current_humidity' = f[3]
          /\ current_light' = f[4]
    /\ pc' = NextPc("read")
    /\ UNCHANGED <<clock, actuators, logfile, sink_ok, calls, syncvars>>

\* lines 136-139 with the readings taken from frames, for cycles cycles
ReadFrom(frames, cycles) ==
    /\ pc = "read"
    /\ clock < cycles * LOOP_DELAY
    /\ \E f \in frames :
          /\ current_moisture' = f[1]
          /\ current_temp' = f[2]
          /\ current_humidity' = f[3]
          /\ current_light' = f[4]
    /\ pc' = NextPc("read")
    /\ UNCHANGED <<clock, actuators, logfile, sink_ok, calls, syncvars>>

\* Control whose log_action lets the exception of a failed write escape
Control_Uncaught(cat) ==
    /\ pc = cat
    /\ LET s == CategoryStep(cat, State, Frame) IN
          /\ SetActuators(s.state)
          /\ Log(<< Call(s.label, s.display, s.action) >>)
    /\ pc' = IF sink_ok THEN NextPc(cat) ELSE "faulted"
    /\ UNCHANGED <<clock, readings, sink_ok, syncvars>>

\* one if/elif/else chain of the loop body with its log_action call
Control(cat) ==
    /\ pc = cat
    /\ LET s == CategoryStep(cat, State, Frame) IN
          /\ SetActuators(s.state)
          /\ Log(<< Call(s.label, s.display, s.action) >>)
    /\ pc' = NextPc(cat)
    /\ UNCHANGED <<clock, readings, sink_ok, syncvars>>

MoistureControl == Control("moisture")          \* lines 141-149
TemperatureControl == Control("temperature")    \* lines 152-160
HumidityControl == Control("humidity")          \* lines 163-180
LightControl == Control("light")                \* lines 183-209

\* line 213: time.sleep(LOOP_DELAY)
Sleep ==
    /\ pc = "sleep"
    /\ clock' = clock + LOOP_DELAY
    /\ pc' = NextPc("sleep")
    /\ UNCHANGED <<actuators, readings, logfile, sink_ok, calls, syncvars>>

\* Ctrl-C between two statements of the loop or during the sleep: control
\* passes to "except KeyboardInterrupt"
KeyboardInterrupt ==
    /\ pc \in LoopPcs
    /\ pc' = "interrupted"
    /\ UNCHANGED <<clock, actuators, readings, logfile, sink_ok, calls, syncvars>>

\* an exception between two statements of the loop or during the sleep:
\* control passes to "except Exception"
RuntimeFault ==
    /\ pc \in LoopPcs
    /\ pc' = "faulted"
    /\ UNCHANGED <<clock, actuators, readings, logfile, sink_ok, calls, syncvars>>

\* an exception or Ctrl-C inside log_action but outside its try block
\* (strftime, print), or Ctrl-C inside it: the rule has already switched its
\* actuator, nothing is appended, and control passes to the except clause
RaiseInLogAction ==
    /\ pc \in Categories
    /\ SetActuators(CategoryStep(pc, State, Frame).state)
    /\ pc' \in {"interrupted", "faulted"}
    /\ UNCHANGED <<clock, readings, logfile, sink_ok, calls, syncvars>>

\* Cleanup whose finally block forgets the shade net
Cleanup_NoShade ==
    /\ pc \in {"interrupted", "faulted"}
    /\ SetActuators([AllOff EXCEPT !.shade_net = shade_net])
    /\ pc' = "done"
    /\ UNCHANGED <<clock, readings, logfile, sink_ok, calls, syncvars>>

\* lines 215-229: the except clause prints, then the finally block switches
\* every device off
Cleanup ==
    /\ pc \in {"interrupted", "faulted"}
    /\ SetActuators(AllOff)
    /\ pc' = "done"
    /\ UNCHANGED <<clock, readings, logfile, sink_ok, calls, syncvars>>

Init ==
    /\ pc = "start"
    /\ clock = 0
    /\ pump = FALSE /\ fan = FALSE /\ mister = FALSE
    /\ led_light = FALSE /\ shade_net = FALSE
    /\ current_moisture = 0 /\ current_temp = 0
    /\ current_humidity = 0 /\ current_light = 0
    /\ log_exists = FALSE /\ log = << >>
    /\ sink_ok = TRUE
    /\ calls = << >>
    /\ sync_pc = "idle"
    /\ processed_data = << >>
    /\ csv_exists = FALSE /\ csv = << >>

Next ==
    \/ Initialise
    \/ ReadSensors
    \/ MoistureControl
    \/ TemperatureControl
    \/ HumidityControl
    \/ LightControl
    \/ Sleep
    \/ KeyboardInterrupt
    \/ RuntimeFault
    \/ RaiseInLogAction
    \/ Cleanup

Spec == Init /\ [][Next]_vars

(***************************************************************************)
(* The control loop with a log file that cannot always be appended to      *)
(* (log_action, lines 98-102).  At most MaxLostLines lines are lost in     *)
(* MaxSinkCycles cycles.                                                   *)
(***************************************************************************)
MaxSinkCycles == 2
MaxLostLines == 1

SinkFrames ==
    { <<3996, 321, 599, 14999>>, <<6504, 279, 801, 30001>>, <<3500, 290, 700, 20000>> }

\* log_action calls whose line did not reach the file
Lost == Len(calls) - Len(log)

\* open() or write() of log_action starts to raise
SinkBreaks ==
    /\ pc \in Categories
    /\ sink_ok
    /\ Lost < MaxLostLines
    /\ sink_ok' = FALSE
    /\ UNCHANGED <<pc, clock, actuators, readings, logfile, calls, syncvars>>

\* the file can be appended to again
SinkRecovers ==
    /\ ~sink_ok
    /\ sink_ok' = TRUE
    /\ UNCHANGED <<pc, clock, actuators, readings, logfile, calls, syncvars>>

ReadSinkFrames == ReadFrom(SinkFrames, MaxSinkCycles)

\* a category of the loop body, its write failing while the file cannot be
\* appended to
SinkControl == \E cat \in Categories : (sink_ok \/ Lost < MaxLostLines) /\ Control(cat)

NextSinkFail ==
    \/ Initialise
    \/ ReadSinkFrames
    \/ SinkControl
    \/ Sleep
    \/ SinkBreaks
    \/ SinkRecovers
    \/ KeyboardInterrupt
    \/ RuntimeFault
    \/ RaiseInLogAction
    \/ Cleanup

SpecSinkFail == Init /\ [][NextSinkFail]_vars

(***************************************************************************)
(* The first cycles of the control loop on frames around the dead bands:   *)
(* dry and moist soil, and temperature, humidity and light inside, on the  *)
(* edge of and just outside their bands                                    *)
(***************************************************************************)
MaxBandCycles == 1

BandFrames ==
    { <<m, t, h, l>> : m \in {3500, 3999, 4000}, t \in {290, 320, 321},
                       h \in {600, 700, 800, 801},
                       l \in {15000, 20000, 30000, 30001} }

ReadBandFrames == ReadFrom(BandFrames, MaxBandCycles)

NextDeadBand ==
    \/ Initialise
    \/ ReadBandFrames
    \/ MoistureControl
    \/ TemperatureControl
    \/ HumidityControl
    \/ LightControl
    \/ Sleep

SpecDeadBand == Init /\ [][NextDeadBand]_vars

(***************************************************************************)
(* The control loop under readings that stop changing: after MaxFreeCycles *)
(* cycles on any frames the sensors return the frame of the last of them   *)
(* for MaxHeldCycles more cycles                                           *)
(***************************************************************************)
MaxFreeCycles == 3
MaxHeldCycles == 3

ReadFreeFrames == ReadFrom(Frames, MaxFreeCycles)

\* lines 136-139, every sensor returning what it returned the cycle before
ReadHeldFrame ==
    /\ pc = "read"
    /\ clock >= MaxFreeCycles * LOOP_DELAY
    /\ clock < (MaxFreeCycles + MaxHeldCycles) * LOOP_DELAY
    /\ pc' = NextPc("read")
    /\ UNCHANGED <<clock, actuators, readings, logfile, sink_ok, calls, syncvars>>

NextHeld ==
    \/ Initialise
    \/ ReadFreeFrames
    \/ ReadHeldFrame
    \/ MoistureControl
    \/ TemperatureControl
    \/ HumidityControl
    \/ LightControl
    \/ Sleep

SpecHeld == Init /\ [][NextHeld]_vars

(***************************************************************************)
(* The light category under the drift of get_light_reading (lines 79-85),  *)
(* cycle after cycle without end.  Only the light reading, the LED and the *)
(* shade net are followed: the clock, the log and the calls are left as    *)
(* they are, which keeps the states finite; the other categories do not    *)
(* touch the LED or the shade net.                                         *)
(***************************************************************************)
LIGHT_DRIFT_DOWN == 1000
LIGHT_DRIFT_UP == 2500
LIGHT_CEILING == 60000

\* the light readings are sampled LightSamples to the range, and next to
\* every threshold of the light rule
LightSamples == 240

LightGrid ==
    {k * (LIGHT_CEILING \div LightSamples) : k \in 0..LightSamples}
    \cup {14999, 15000, 15001, 15499, 15500, 15501,
          28999, 29000, 29001, 29999, 30000, 30001}

\* the readings get_light_reading can return after the reading l
DriftReadings(l) ==
    {x \in LightGrid : x >= l - LIGHT_DRIFT_DOWN /\ x <= l + LIGHT_DRIFT_UP}

\* line 139
ReadDriftingLight ==
    /\ pc = "read"
    /\ current_light' \in DriftReadings(current_light)
    /\ pc' = "light"
    /\ UNCHANGED <<clock, actuators, current_moisture, current_temp,
                   current_humidity, logfile, sink_ok, calls, syncvars>>

\* lines 183-209, the log line left out
LightOnly ==
    /\ pc = "light"
    /\ SetActuators(LightStep(State, Frame).state)
    /\ pc' = "read"
    /\ UNCHANGED <<clock, readings, logfile, sink_ok, calls, syncvars>>

\* all actuators OFF, the first reading any value of the range
InitDrift ==
    /\ pc = "light"
    /\ clock = 0
    /\ pump = FALSE /\ fan = FALSE /\ mister = FALSE
    /\ led_light = FALSE /\ shade_net = FALSE
    /\ current_moisture = 0 /\ current_temp = 0
    /\ current_humidity = 0
    /\ current_light \in LightGrid
    /\ log_exists = FALSE /\ log = << >>
    /\ sink_ok = TRUE
    /\ calls = << >>
    /\ sync_pc = "idle"
    /\ processed_data = << >>
    /\ csv_exists = FALSE /\ csv = << >>

NextDrift ==
    \/ ReadDriftingLight
    \/ LightOnly

SpecDrift == InitDrift /\ [][NextDrift]_vars

(***************************************************************************)
(* read_local_buffer_and_sync (cloud_sync_logic.py)                        *)
(***************************************************************************)
\* sampled values of random.randint(1000, 9999)
SyncIds == {1000, 9999}

\* SyncMissing that has opened the export file for writing before it looks
\* for the log file
SyncMissing_OpensExport ==
    /\ sync_pc = "idle"
    /\ ~log_exists
    /\ sync_pc' = "done"
    /\ csv_exists' = TRUE
    /\ csv' = << >>
    /\ UNCHANGED <<pc, clock, actuators, readings, logfile, sink_ok, calls,
                   processed_data>>

\* lines 54-56: the log file is missing
SyncMissing ==
    /\ sync_pc = "idle"
    /\ ~log_exists
    /\ sync_pc' = "done"
    /\ UNCHANGED <<pc, clock, actuators, readings, logfile, sink_ok, calls,
                   processed_data, csv_exists, csv>>

\* lines 58-72: every line of the file is stripped and parsed, a random
\* number being drawn for each line that yields a record; without any
\* record the run ends here
SyncRead ==
    /\ sync_pc = "idle"
    /\ log_exists
    /\ \E recs \in { ParseLines(log, [i \in 1..Len(log) |-> 1000], 1) } :
       \E ids \in [1..Len(recs) -> SyncIds] :
          processed_data' =
              [j \in 1..Len(recs) |->
                  [recs[j] EXCEPT !.Cloud_Sync_ID = "CS-" \o ToString(ids[j])]]
    /\ sync_pc' = IF processed_data' = << >> THEN "done" ELSE "export"
    /\ UNCHANGED <<pc, clock, actuators, readings, logfile, sink_ok, calls,
                   csv_exists, csv>>

\* lines 78-91: the header and the rows replace the export file
SyncExport ==
    /\ sync_pc = "export"
    /\ csv_exists' = TRUE
    /\ csv' = CsvOf(processed_data)
    /\ sync_pc' = "cleanup"
    /\ UNCHANGED <<pc, clock, actuators, readings, logfile, sink_ok, calls,
                   processed_data>>

\* SyncCleanup with os.remove(LOCAL_LOG_FILE) active
SyncCleanup_Remove ==
    /\ sync_pc = "cleanup"
    /\ sync_pc' = "done"
    /\ log_exists' = FALSE
    /\ log' = << >>
    /\ UNCHANGED <<pc, clock, actuators, readings, sink_ok, calls,
                   processed_data, csv_exists, csv>>

\* lines 94-99: os.remove is commented out, only a message is printed
SyncCleanup ==
    /\ sync_pc = "cleanup"
    /\ sync_pc' = "done"
    /\ UNCHANGED <<pc, clock, actuators, readings, logfile, sink_ok, calls,
                   processed_data, csv_exists, csv>>

(***************************************************************************)
(* The batch side run on its own: the control loop has stopped, the log    *)
(* file holds lines the controller wrote and lines damaged since           *)
(***************************************************************************)
SampleCalls ==
    << [timestamp |-> Timestamp(0), label |-> "Moisture", display |-> "73.0%",
        action |-> "System Initialized: Pump OFF"],
       [timestamp |-> Timestamp(5), label |-> "Soil_Moisture", display |-> "35.0%",
        action |-> "Pump ON (Irrigation START)"] >>

WellFormedLines == { LineOf(SampleCalls[i]) : i \in 1..Len(SampleCalls) }

MalformedLines ==
    { "[2025-01-01 00:00:05] Temperature: 29.0°C\n",        \* no ". Action: "
      "[2025-01-01 00:00:05] Humidity 70.0%. Action: Mister ON (Humidify START)\n",
                                                            \* no ": " in the sensor segment
      "[2025-01-01\n" }                                     \* shorter than the offsets

SampleLines == WellFormedLines \cup MalformedLines

SampleFiles ==
    UNION { [1..n -> SampleLines] : n \in 0..MaxFileLines }

\* the export an earlier run left behind
PriorCsv == CsvOf(parse_log_entry(Strip(LineOf(SampleCalls[1])), 1000))

InitSync ==
    /\ pc = "done"
    /\ clock = 0
    /\ pump = FALSE /\ fan = FALSE /\ mister = FALSE
    /\ led_light = FALSE /\ shade_net = FALSE
    /\ current_moisture = 0 /\ current_temp = 0
    /\ current_humidity = 0 /\ current_light = 0
    /\ \/ log_exists = FALSE /\ log = << >>
       \/ log_exists = TRUE /\ log \in SampleFiles
    /\ sink_ok = TRUE
    /\ calls = << >>
    /\ sync_pc = "idle"
    /\ processed_data = << >>
    /\ \/ csv_exists = FALSE /\ csv = << >>
       \/ csv_exists = TRUE /\ csv = PriorCsv

NextSync ==
    \/ SyncMissing
    \/ SyncRead
    \/ SyncExport
    \/ SyncCleanup

SpecSync == InitSync /\ [][NextSync]_vars

(***************************************************************************)
(* The batch run with an export file that cannot always be written (lines  *)
(* 86-89, which no try block encloses): the exception leaves                *)
(* read_local_buffer_and_sync and ends the program with a traceback.       *)
(***************************************************************************)
\* open(CLOUD_READY_CSV, 'w') raises: the file is not touched
SyncExportOpenFails ==
    /\ sync_pc = "export"
    /\ sync_pc' = "crashed"
    /\ UNCHANGED <<pc, clock, actuators, readings, logfile, sink_ok, calls,
                   processed_data, csv_exists, csv>>

\* open(CLOUD_READY_CSV, 'w') has created or truncated the file, then
\* writeheader or writerows raises: the file holds the rows written so far
SyncExportWriteFails ==
    /\ sync_pc = "export"
    /\ csv_exists' = TRUE
    /\ \E k \in 0..Len(processed_data) : csv' = SubSeq(CsvOf(processed_data), 1, k)
    /\ sync_pc' = "crashed"
    /\ UNCHANGED <<pc, clock, actuators, readings, logfile, sink_ok, calls,
                   processed_data>>

NextSyncFail ==
    \/ SyncMissing
    \/ SyncRead
    \/ SyncExport
    \/ SyncExportOpenFails
    \/ SyncExportWriteFails
    \/ SyncCleanup

SpecSyncFail == InitSync /\ [][NextSyncFail]_vars

(***************************************************************************)
(* The parser on lines with an empty segment.  A line is put together as   *)
(* log_action does, from a sensor segment "label: display" and an action,  *)
(* any of which may be empty; the batch run reads a file of one such line. *)
(***************************************************************************)
SegmentLabels == {"", "Soil_Moisture", "Temperature"}
SegmentDisplays == {"", "35.0%", "29.0°C"}
SegmentActions == {"", "Pump ON (Irrigation START)", "Temperature: No Change (OFF)"}

SegmentLine(sensor_data, action) == LogEntry(Timestamp(0), sensor_data, action) \o "\n"

\* the sensor segments: an empty one, and every "label: display"
SensorSegments ==
    {""} \cup {SensorData(l, d) : l \in SegmentLabels, d \in SegmentDisplays}

SegmentLines == {SegmentLine(sd, a) : sd \in SensorSegments, a \in SegmentActions}

\* the lines of SegmentLines with an empty sensor segment, metric label,
\* display value or action segment
EmptySegmentLines ==
    {SegmentLine("", a) : a \in SegmentActions}
    \cup {SegmentLine(SensorData(l, d), a) :
             l \in {x \in SegmentLabels : x = ""}, d \in SegmentDisplays,
             a \in SegmentActions}
    \cup {SegmentLine(SensorData(l, d), a) :
             l \in SegmentLabels, d \in {x \in SegmentDisplays : x = ""},
             a \in SegmentActions}
    \cup {SegmentLine(SensorData(l, d), a) :
             l \in SegmentLabels, d \in SegmentDisplays,
             a \in {x \in SegmentActions : x = ""}}

InitParse ==
    /\ pc = "done"
    /\ clock = 0
    /\ pump = FALSE /\ fan = FALSE /\ mister = FALSE
    /\ led_light = FALSE /\ shade_net = FALSE
    /\ current_moisture = 0 /\ current_temp = 0
    /\ current_humidity = 0 /\ current_light = 0
    /\ log_exists = TRUE
    /\ \E line \in SegmentLines : log = << line >>
    /\ sink_ok = TRUE
    /\ calls = << >>
    /\ sync_pc = "idle"
    /\ processed_data = << >>
    /\ \/ csv_exists = FALSE /\ csv = << >>
       \/ csv_exists = TRUE /\ csv = PriorCsv

NextParse ==
    \/ SyncRead
    \/ SyncExport
    \/ SyncCleanup

SpecParse == InitParse /\ [][NextParse]_vars

(***************************************************************************)
(* Properties                                                              *)
(***************************************************************************)
Last(s) == s[Len(s)]

\* the control cycle in progress, counted from 1
Cycle == clock \div LOOP_DELAY + 1

\* a step that runs the rule of category cat to its end
RuleRan(cat) == pc = cat /\ pc' = NextPc(cat)

\* C1: the moisture rule switches the pump ON when moisture < 40 and the
\* pump is OFF, switches it OFF when moisture > 65 and the pump is ON,
\* leaves it alone in every other case (so for every moisture in [40, 65]),
\* and never changes fan, mister, LED or shade.
C1_MoistureRule ==
    [][ RuleRan("moisture") =>
          /\ (current_moisture < 4000 /\ ~pump) => pump'
          /\ (current_moisture > 6500 /\ pump) => ~pump'
          /\ ( /\ ~(current_moisture < 4000 /\ ~pump)
               /\ ~(current_moisture > 6500 /\ pump) ) => (pump' = pump)
          /\ (4000 <= current_moisture /\ current_moisture <= 6500)
                => (pump' = pump)
          /\ UNCHANGED <<fan, mister, led_light, shade_net>> ]_vars

\* the moisture rule has just switched a running pump off
C1_Witness ==
    /\ pc = "temperature"
    /\ current_moisture > 6500
    /\ ~pump
    /\ Last(calls).action = "Pump OFF (Irrigation STOP)"

C3_ShutdownAllOff ==
    pc = "done" => (~pump /\ ~fan /\ ~mister /\ ~led_light /\ ~shade_net)

\* the loop was stopped right after the light rule deployed the shade, in a
\* cycle that had also started the pump and the fan
C3_Witness ==
    /\ pc = "done"
    /\ Len(calls) >= 8
    /\ Last(calls).action = "Shade Net ON (High Light Protection)"
    /\ \E i \in 1..Len(calls) : calls[i].action = "Fan ON (Dehumidify START)"
    /\ ~pump /\ ~fan /\ ~mister /\ ~led_light /\ ~shade_net

\* text before the first "(", trimmed
ActionName(action) == Strip(Slice(action, 0, IF Find(action, "(", 0) = -1
                                             THEN Len(action)
                                             ELSE Find(action, "(", 0)))

\* C4: every line written for a call whose label and display hold neither
\* ": " nor ". Action: " parses back to the call's timestamp, full metric
\* label, display value and action name.
C4_RoundTrip ==
    \A i \in 1..Len(log) :
        LET c == calls[i]
            r == parse_log_entry(Strip(log[i]), 1000)
        IN  ( /\ ~Contains(c.label, ": ") /\ ~Contains(c.label, ". Action: ")
              /\ ~Contains(c.display, ": ") /\ ~Contains(c.display, ". Action: ") )
            => /\ r # << >>
               /\ r[1].Timestamp = c.timestamp
               /\ r[1].Sensor_Type = c.label
               /\ r[1].Sensor_Reading = c.display
               /\ r[1].Actuator_Action = ActionName(c.action)

\* the lines the latest step appended to the log file
NewLines == SubSeq(log', Len(log) + 1, Len(log'))

\* the log_action calls the latest step made
NewCalls == SubSeq(calls', Len(calls) + 1, Len(calls'))

\* C5: every line the controller writes is accepted by the parser, so a
\* batch run exports one row for each line the controller wrote: each step
\* appends one line per log_action call, the parser returns a record for
\* each appended line, and the batch loop keeps one record per line.
C5_EveryLineParses ==
    [][ /\ Len(NewLines) = Len(NewCalls)
        /\ Len(log') = Len(calls')
        /\ \A id \in SyncIds :
              \A recs \in { ParseLines(NewLines, [i \in 1..Len(NewLines) |-> id], 1) } :
                  /\ Len(recs) = Len(NewCalls)
                  /\ \A i \in 1..Len(NewLines) :
                        recs[i].Timestamp = NewCalls[i].timestamp ]_vars

\* the log holds, besides the initialisation lines, the one line the
\* controller labels "Light" instead of "Light_Intensity"
C5_Witness ==
    /\ Len(log) > 4
    /\ Last(calls).label = "Light"
    /\ Last(calls).action = "Shade Net OFF (Light Reduced)"
    /\ parse_log_entry(Strip(Last(log)), 1000) # << >>

\* the three kinds of malformed line
TooShort(line) == Len(line) < 23
LacksActionSeparator(line) == ~Contains(line, ". Action: ")
LacksLabelSeparator(line) ==
    ~Contains(Split(SliceFrom(line, 22), ". Action: ")[1], ": ")
Malformed(line) ==
    TooShort(line) \/ LacksActionSeparator(line) \/ LacksLabelSeparator(line)

\* positions of the lines of the log file that are well formed
WellFormedAt == { i \in 1..Len(log) : log[i] \in WellFormedLines }

\* C6: a line without ". Action: ", without ": " in its sensor segment or
\* shorter than the fixed offsets yields no record; the batch run goes on
\* past it, so every well-formed line before and after it has its record,
\* and its row once the export is written.
C6_MalformedSkipped ==
    (sync_pc # "idle" /\ log_exists) =>
        /\ \A i \in 1..Len(log) :
              /\ log[i] \in MalformedLines => Malformed(Strip(log[i]))
              /\ Malformed(Strip(log[i])) =>
                    \A id \in SyncIds : parse_log_entry(Strip(log[i]), id) = << >>
        /\ Len(processed_data) = Cardinality(WellFormedAt)
        /\ \A i \in WellFormedAt :
              \E j \in 1..Len(processed_data) :
                  processed_data[j].Timestamp = Slice(log[i], 1, 20)
        /\ sync_pc = "cleanup" =>
              /\ Len(csv) = 1 + Cardinality(WellFormedAt)
              /\ \A i \in WellFormedAt :
                    \E j \in 2..Len(csv) : csv[j][1] = Slice(log[i], 1, 20)

\* a file with a malformed line between two well-formed ones was exported
C6_Witness ==
    /\ sync_pc = "cleanup"
    /\ Len(log) = 3
    /\ log[1] \in WellFormedLines
    /\ LacksActionSeparator(Strip(log[2]))
    /\ log[3] \in WellFormedLines
    /\ Len(csv) = 3

\* positions of the lines of the log file the parser accepts
ParsedAt == { i \in 1..Len(log) : parse_log_entry(Strip(log[i]), 1000) # << >> }

\* position in the log file of the k-th line the parser accepts
NthParsed(k) ==
    CHOOSE i \in ParsedAt : Cardinality({ j \in ParsedAt : j <= i }) = k

\* C8: the export starts with the header Timestamp, Sensor_Type,
\* Sensor_Reading, Actuator_Action, Is_Critical, Cloud_Sync_ID, followed by
\* exactly one row per parsed line, in the order of the lines in the file.
C8_ExportOrder ==
    sync_pc = "cleanup" =>
        /\ csv_exists
        /\ csv[1] = <<"Timestamp", "Sensor_Type", "Sensor_Reading",
                      "Actuator_Action", "Is_Critical", "Cloud_Sync_ID">>
        /\ Len(csv) = 1 + Cardinality(ParsedAt)
        /\ \A k \in 1..Cardinality(ParsedAt) :
              LET r == parse_log_entry(Strip(log[NthParsed(k)]), 1000)[1]
              IN  /\ Len(csv[k + 1]) = 6
                  /\ SubSeq(csv[k + 1], 1, 5) = SubSeq(Row(r), 1, 5)
                  /\ \E id \in SyncIds : csv[k + 1][6] = "CS-" \o ToString(id)

\* two different lines around a skipped one were exported in file order
C8_Witness ==
    /\ sync_pc = "cleanup"
    /\ Len(log) = 3
    /\ log[2] \in MalformedLines
    /\ Len(csv) = 3
    /\ csv[2][4] = "Pump ON"
    /\ csv[3][4] = "System Initialized: Pump OFF"

\* C9: no step of the batch run deletes, truncates or rewrites the local
\* action log, whether the file is missing, holds no parsable line or is
\* exported.
C9_LogUntouched ==
    [][ log_exists' = log_exists /\ log' = log ]_vars

\* an export has been written and the run is over, the log still in place
C9_Witness ==
    /\ sync_pc = "done"
    /\ processed_data # << >>
    /\ csv = CsvOf(processed_data)
    /\ log_exists /\ Len(log) = MaxFileLines

\* some actuator goes from OFF to ON in the step
SwitchedOn ==
    \/ ~pump /\ pump'
    \/ ~fan /\ fan'
    \/ ~mister /\ mister'
    \/ ~led_light /\ led_light'
    \/ ~shade_net /\ shade_net'

\* C7: Is_Critical is "Yes" iff the extracted action name contains "Pump ON",
\* "Fan ON", "Mister ON", "Shade Net ON" or "LEDs ON"; so a line of the
\* controller is critical exactly when it records an actuator being
\* switched ON, and every OFF line, no-change line and initialisation line
\* is classified "No".
C7_Criticality ==
    [][ \A i \in 1..Len(NewLines) :
          \A r \in { parse_log_entry(Strip(NewLines[i]), 1000)[1] } :
          /\ r.Is_Critical \in {"Yes", "No"}
          /\ (r.Is_Critical = "Yes") <=>
                \E c \in {"Pump ON", "Fan ON", "Mister ON", "Shade Net ON", "LEDs ON"} :
                    Contains(r.Actuator_Action, c)
          /\ (r.Is_Critical = "Yes") <=> (pc \in Categories /\ SwitchedOn) ]_vars

\* a no-change line that reports the state ON has been classified "No"
C7_Witness ==
    /\ pc = "sleep"
    /\ led_light
    /\ Last(calls).action = "Light: No Change (LED:ON, Shade:OFF)"
    /\ parse_log_entry(Strip(Last(log)), 1000)[1].Is_Critical = "No"

\* calls made before the cycle in progress: four initialisation lines and
\* four lines per completed cycle
CycleBase == 4 + 4 * (Cycle - 1)

\* calls the cycle in progress has made when the loop is at position p
CallsAt(p) ==
    CASE p = "read" -> 0
      [] p = "moisture" -> 0
      [] p = "temperature" -> 1
      [] p = "humidity" -> 2
      [] p = "light" -> 3
      [] p = "sleep" -> 4

\* C10: every cycle evaluates moisture, temperature, humidity and light in
\* that order and appends exactly one line per category, four per cycle,
\* each with the reading of the cycle's frame; the humidity rule acts on
\* the fan flag as the temperature rule of the same cycle left it.
C10_FixedOrder ==
    pc \in LoopPcs =>
        /\ Len(calls) = CycleBase + CallsAt(pc)
        /\ Len(log) = Len(calls)
        /\ pc # "read" =>
              /\ CallsAt(pc) >= 1 =>
                    /\ calls[CycleBase + 1].label = "Soil_Moisture"
                    /\ calls[CycleBase + 1].display
                          = FmtHundredths(current_moisture) \o "%"
              /\ CallsAt(pc) >= 2 =>
                    /\ calls[CycleBase + 2].label = "Temperature"
                    /\ calls[CycleBase + 2].display = FmtTenths(current_temp) \o "°C"
              /\ CallsAt(pc) >= 3 =>
                    /\ calls[CycleBase + 3].label = "Humidity"
                    /\ calls[CycleBase + 3].display
                          = FmtTenths(current_humidity) \o "%"
                    /\ LET T == calls[CycleBase + 2].action
                           H == calls[CycleBase + 3].action
                           fanAfterTemp == T \in {"Fan ON (Cooling START)",
                                                  "Temperature: No Change (ON)"}
                       IN  /\ H = "Fan ON (Dehumidify START)" =>
                                 (~fanAfterTemp /\ current_humidity > 800)
                           /\ (current_humidity > 800 /\ ~fanAfterTemp) =>
                                 H \in {"Mister OFF (Humidify STOP)",
                                        "Fan ON (Dehumidify START)"}
                           /\ (current_humidity > 800 /\ fanAfterTemp) =>
                                 H \in {"Mister OFF (Humidify STOP)",
                                        "Humidity: No Change (OFF)"}
              /\ CallsAt(pc) >= 4 =>
                    /\ calls[CycleBase + 4].label \in {"Light_Intensity", "Light"}
                    /\ calls[CycleBase + 4].display = FmtLux(current_light) \o " Lux"

\* hot and humid: the temperature rule started the fan, and the humidity
\* rule of the same cycle, finding it ON, did not start it for dehumidifying
C10_Witness ==
    /\ pc = "sleep"
    /\ Len(calls) = CycleBase + 4
    /\ current_humidity > 800
    /\ calls[CycleBase + 2].action = "Fan ON (Cooling START)"
    /\ calls[CycleBase + 3].action = "Humidity: No Change (OFF)"

(***************************************************************************)
(* C11: one switch per category                                            *)
(***************************************************************************)
\* the actuators whose flag differs between the two states of a step
Switched ==
    {a \in {"pump", "fan", "mister", "led_light", "shade_net"} : State[a] # State'[a]}

\* the actuators a category's rule may switch
OwnActuators(cat) ==
    CASE cat = "moisture" -> {"pump"}
      [] cat = "temperature" -> {"fan"}
      [] cat = "humidity" -> {"mister", "fan"}
      [] cat = "light" -> {"led_light", "shade_net"}

\* C11: a category's rule switches at most one actuator, and only one of its
\* own (moisture: pump; temperature: fan; humidity: mister or fan; light: LED
\* or shade).  Humidity above 80 % with the mister ON and the fan OFF switches
\* only the mister OFF and leaves the fan OFF; light above 30000 lux with the
\* LED ON and the shade OFF switches only the LED OFF.
C11_OneSwitchPerCategory ==
    [][\A cat \in Categories :
          RuleRan(cat) =>
             /\ Cardinality(Switched) <= 1
             /\ Switched \subseteq OwnActuators(cat)
             /\ (cat = "humidity" /\ current_humidity > 800 /\ mister /\ ~fan)
                   => (~mister' /\ ~fan' /\ Switched = {"mister"})
             /\ (cat = "light" /\ current_light > 30000 /\ led_light /\ ~shade_net)
                   => (~led_light' /\ ~shade_net' /\ Switched = {"led_light"})]_vars

\* the humidity rule has just switched the mister off in humid air and left
\* the stopped fan alone
C11_Witness ==
    /\ pc = "light"
    /\ current_humidity > 800
    /\ Last(calls).action = "Mister OFF (Humidify STOP)"
    /\ ~mister /\ ~fan

(***************************************************************************)
(* C12: lines with an empty segment                                        *)
(***************************************************************************)
\* C12: the parser returns no record for every line in which the sensor
\* segment, the metric label, the metric display value or the action segment
\* is empty, so the batch run that read such a line holds no record of it.
C12_EmptySegmentNoRecord ==
    (sync_pc # "idle" /\ Len(log) = 1 /\ log[1] \in EmptySegmentLines)
        => processed_data = << >>

(***************************************************************************)
(* C13: a failing log file                                                 *)
(***************************************************************************)
\* a step in which a category calls log_action while the file cannot be
\* appended to
WriteFailed == pc \in Categories /\ ~sink_ok /\ calls' # calls

\* C13: a failure to append a log line is not fatal.  It is caught inside
\* log_action: the line is lost, the switch the rule has already made is
\* kept, the loop goes on to the next category (or the sleep) and not to the
\* shutdown path; whatever was lost, every position of every cycle is
\* reached with all the log_action calls before it made.
C13_SinkFailureNotFatal ==
    [][/\ WriteFailed =>
             /\ log' = log
             /\ State' = CategoryStep(pc, State, Frame).state
             /\ pc' = NextPc(pc)
             /\ pc' \notin {"interrupted", "faulted", "done"}
       /\ pc' \in LoopPcs => Len(calls') = (CycleBase + CallsAt(pc))']_vars

\* the line of the first cycle's "Pump ON" was lost, the pump is running
\* and the second cycle has evaluated its moisture rule
C13_Witness ==
    /\ pc = "temperature"
    /\ Cycle = 2
    /\ Lost = 1
    /\ calls[5].action = "Pump ON (Irrigation START)"
    /\ log[5] # LineOf(calls[5])
    /\ pump

(***************************************************************************)
(* C14: nothing to export                                                  *)
(***************************************************************************)
\* no line of the log file yields a record
NoLineParses ==
    \A i \in 1..Len(log) : parse_log_entry(Strip(log[i]), 1000) = << >>

\* C14: when the log file is missing, or exists but none of its lines
\* parses, the batch run reports and returns: it holds no record, ends
\* without reaching the export, and neither creates, truncates nor writes the
\* export file.
C14_NoDataNoExport ==
    [][/\ (sync_pc = "idle" /\ (~log_exists \/ NoLineParses)) =>
             /\ sync_pc' = "done"
             /\ processed_data' = << >>
             /\ csv_exists' = csv_exists
             /\ csv' = csv
       /\ sync_pc' = "export" => processed_data' # << >>]_vars

\* a run over a file of unparsable lines has ended and the export of an
\* earlier run is as it was
C14_Witness ==
    /\ sync_pc = "done"
    /\ log_exists /\ Len(log) >= 2
    /\ processed_data = << >>
    /\ csv_exists /\ csv = PriorCsv

(***************************************************************************)
(* C15: a failing export file                                              *)
(***************************************************************************)
\* a step of the export that does not get to the end of the write
ExportFailed == sync_pc = "export" /\ sync_pc' # "cleanup"

\* C15: when opening or writing the export file fails, the failure is
\* reported and the batch run ends cleanly instead of with an unhandled
\* fault, and the export file is left as it was, neither truncated nor
\* partly overwritten.
C15_ExportFailureClean ==
    [][ExportFailed =>
          /\ sync_pc' = "done"
          /\ csv_exists' = csv_exists
          /\ csv' = csv]_vars

(***************************************************************************)
(* C16: the first cycle on dry soil                                        *)
(***************************************************************************)
\* moisture < 40 %, temperature <= 32, 60 % <= humidity <= 80 %,
\* 15000 lux <= light <= 30000 lux
DrySoilInBand ==
    /\ current_moisture < 4000
    /\ current_temp <= 320
    /\ current_humidity >= 600 /\ current_humidity <= 800
    /\ current_light >= 15000 /\ current_light <= 30000

\* C16: from the initial state (all five actuators OFF) one cycle on a frame
\* with moisture < 40, temperature <= 32, 60 <= humidity <= 80 and
\* 15000 <= light <= 30000 fires exactly "Pump ON" for moisture and the
\* no-change action for temperature (OFF), humidity (OFF) and light (LED
\* OFF, shade OFF), and ends with the pump ON and every other actuator OFF.
C16_DeadBandFirstCycle ==
    (pc = "sleep" /\ Cycle = 1 /\ DrySoilInBand) =>
        /\ Len(calls) = 8
        /\ calls[5].action = "Pump ON (Irrigation START)"
        /\ calls[6].action = "Temperature: No Change (OFF)"
        /\ calls[7].action = "Humidity: No Change (OFF)"
        /\ calls[8].action = "Light: No Change (LED:OFF, Shade:OFF)"
        /\ State = [AllOff EXCEPT !.pump = TRUE]

\* the first cycle has run on the frame {35.0, 29.0, 70.0, 20000}
C16_Witness ==
    /\ pc = "sleep"
    /\ Cycle = 1
    /\ Frame = [moisture |-> 3500, temp |-> 290, humidity |-> 700, light |-> 20000]
    /\ pump
    /\ Last(calls).action = "Light: No Change (LED:OFF, Shade:OFF)"

(***************************************************************************)
(* C17: the shared fan                                                     *)
(***************************************************************************)
\* C17: the fan flag carries no cause.  Whenever the temperature rule runs
\* with the temperature below 28 and the fan ON it switches the fan OFF
\* with "Fan OFF (Cooling STOP)", whatever the humidity and whichever rule
\* started the fan; so there is an execution in which the humidity rule
\* starts the fan for dehumidifying in one cycle and the temperature rule of
\* the next cycle stops it while the humidity is still above 80 %.
C17_FanStoppedWhateverTheCause ==
    [][(RuleRan("temperature") /\ current_temp < 280 /\ fan) =>
          /\ ~fan'
          /\ Last(calls').action = "Fan OFF (Cooling STOP)"]_vars

\* the humidity rule of the previous cycle started the fan, and the
\* temperature rule of this cycle has stopped it in air still above 80 %
C17_Witness ==
    /\ pc = "humidity"
    /\ Cycle >= 2
    /\ Len(calls) = CycleBase + 2
    /\ calls[CycleBase - 1].action = "Fan ON (Dehumidify START)"
    /\ calls[CycleBase].label \in {"Light_Intensity", "Light"}
    /\ calls[CycleBase + 2].action = "Fan OFF (Cooling STOP)"
    /\ current_humidity > 800
    /\ ~fan

(***************************************************************************)
(* C18: readings that stop changing                                        *)
(***************************************************************************)
\* the cycle in progress is at least the n-th in a row on the same frame
HeldFor(n) == Cycle >= MaxFreeCycles + n - 1

NoChangeActions ==
    {"Soil_Moisture: No Change (ON)", "Soil_Moisture: No Change (OFF)",
     "Temperature: No Change (ON)", "Temperature: No Change (OFF)",
     "Humidity: No Change (ON)", "Humidity: No Change (OFF)",
     "Light: No Change (LED:ON, Shade:ON)", "Light: No Change (LED:ON, Shade:OFF)",
     "Light: No Change (LED:OFF, Shade:ON)", "Light: No Change (LED:OFF, Shade:OFF)"}

\* C18 as stated: on the same frame every cycle the controller settles
\* within a bounded number of cycles, two being enough for every rule to
\* have acted; from the third cycle on the frame no rule switches anything.
C18_SettlesOnHeldFrame ==
    (pc = "sleep" /\ HeldFor(3)) =>
        \A i \in 1..4 : calls[CycleBase + i].action \in NoChangeActions

\* C18 amended: from the third cycle on the same frame the moisture and
\* light rules switch nothing, and the temperature and humidity rules switch
\* nothing unless the frame has temperature < 28 and humidity > 80 %; on such
\* a frame the temperature rule stops the fan and the humidity rule starts it
\* again in that and every later cycle.
C18_SettlesUnlessCoolAndHumid ==
    (pc = "sleep" /\ HeldFor(3)) =>
        /\ calls[CycleBase + 1].action \in NoChangeActions
        /\ calls[CycleBase + 4].action \in NoChangeActions
        /\ IF current_temp < 280 /\ current_humidity > 800
           THEN /\ calls[CycleBase + 2].action = "Fan OFF (Cooling STOP)"
                /\ calls[CycleBase + 3].action = "Fan ON (Dehumidify START)"
                /\ fan
           ELSE /\ calls[CycleBase + 2].action \in NoChangeActions
                /\ calls[CycleBase + 3].action \in NoChangeActions

\* the fan has been stopped and started again in the third cycle on a cool
\* and humid frame
C18_Witness ==
    /\ pc = "sleep"
    /\ HeldFor(3)
    /\ current_temp < 280 /\ current_humidity > 800
    /\ calls[CycleBase + 2].action = "Fan OFF (Cooling STOP)"
    /\ calls[CycleBase + 3].action = "Fan ON (Dehumidify START)"

(***************************************************************************)
(* C19: LED and shade net under drifting light                             *)
(***************************************************************************)
\* C19: starting from all actuators OFF, for every sequence of light
\* readings in 0..60000 in which a reading is at most 1000 lux below and at
\* most 2500 lux above the one before, the LED grow-light and the shade net
\* are never ON together.
C19_LedAndShadeExclusive == ~(led_light /\ shade_net)

\* the shade net, spread in light above 30000 lux, is still ON after the
\* light has drifted back into the band between 29000 and 30000 lux
C19_Witness ==
    /\ pc = "read"
    /\ shade_net /\ ~led_light
    /\ current_light >= 29000 /\ current_light < 30000

(***************************************************************************)
(* C20: cooling is not pre-empted                                          *)
(***************************************************************************)
\* C20: at the end of any cycle whose temperature reading is above 32 the
\* fan is ON: the temperature rule leaves it ON, and the humidity rule,
\* which can switch the fan ON, never switches it OFF.
C20_CoolingNotPreempted ==
    [][/\ (RuleRan("temperature") /\ current_temp > 320) => fan'
       /\ (RuleRan("humidity") /\ fan) => fan'
       /\ (pc' = "sleep" /\ current_temp' > 320) => fan']_vars

\* a hot cycle has ended with the fan running, its humidity rule having
\* switched the mister off
C20_Witness ==
    /\ pc = "sleep"
    /\ current_temp > 320
    /\ fan
    /\ calls[CycleBase + 3].action = "Mister OFF (Humidify STOP)"

====
